---- MODULE Spec2Model ----
(***************************************************************************)
(* Model of Pipeline.get_layers and Pipeline.get_date_range of the PDRF    *)
(* scraper (src/src/hdx/scraper/pdrf/pipeline.py).  One walk of get_layers *)
(* is a state machine whose steps are its remote calls: the root directory *)
(* request, one layer-listing request per service and one statistics       *)
(* request per layer.  The remote server is the environment: every         *)
(* response is chosen when the request is made.                            *)
(***************************************************************************)
EXTENDS Integers, Sequences, FiniteSets, TLC

\* ---------------------------------------------------------------- bounds
MaxServices == 2
MaxLayers == 2

\* ------------------------------------------------------- python values
\* Python's None (JSON null, and the null bound of an extent).
None == [py |-> "None"]

IsNone(v) == "py" \in DOMAIN v

\* dict.get(key, default)
Get(dict, key, default) == IF key \in DOMAIN dict THEN dict[key] ELSE default

\* The dict {} .
EmptyDict == [k \in {} |-> None]

\* An exception leaving a function, and a value returned by it.
Raise(exc) == [raised |-> TRUE, exc |-> exc]

Return(value) == [raised |-> FALSE, value |-> value]

\* The lists of at most n elements of S, no element listed twice.
SeqUpTo(S, n) ==
    {s \in UNION {[1..k -> S] : k \in 0..n} :
       \A i, j \in DOMAIN s : i # j => s[i] # s[j]}

\* ------------------------------------------------------- configuration
base_url == "https://handa.pdrf.org.ph/arcgis/rest/services"

folder == "2024_PS_Response_Efforts"

\* ------------------------------------------------------- date parsing
date_fmt == "%m/%d/%Y %I:%M:%S %p"

\* A date string, by the layout it is written in and the fields it holds.
DateString(layout, mo, d, y, h, mi, s, p) ==
    [layout |-> layout, month |-> mo, day |-> d, year |-> y,
     hour |-> h, minute |-> mi, second |-> s, meridiem |-> p]

\* "07/24/2024 04:00:00 AM"
MinString == DateString(date_fmt, 7, 24, 2024, 4, 0, 0, "AM")

\* "08/05/2024 04:00:00 PM"
MaxString == DateString(date_fmt, 8, 5, 2024, 4, 0, 0, "PM")

\* "2024-07-24": another layout than date_fmt
IsoString == DateString("%Y-%m-%d", 7, 24, 2024, 0, 0, 0, "")

\* "08/05/2024 16:00:00 PM": 16 is no %I hour
BadHourString == DateString(date_fmt, 8, 5, 2024, 16, 0, 0, "PM")

\* strptime(string, fmt) accepts the string
Matches(string, fmt) ==
    /\ string.layout = fmt
    /\ string.month \in 1..12
    /\ string.day \in 1..31
    /\ string.hour \in 1..12
    /\ string.minute \in 0..59
    /\ string.second \in 0..59
    /\ string.meridiem \in {"AM", "PM"}

\* A parse_date that lets a null input through as a null date.
parse_date_null(string, fmt) ==
    IF IsNone(string) THEN Return(None)
    ELSE IF ~Matches(string, fmt) THEN Raise("ValueError")
    ELSE Return([year |-> string.year, month |-> string.month,
                 day |-> string.day,
                 hour |-> (string.hour % 12)
                          + (IF string.meridiem = "PM" THEN 12 ELSE 0),
                 minute |-> string.minute, second |-> string.second,
                 tzinfo |-> "UTC"])

\* parse_date(string, date_format): datetime.strptime on the given format,
\* 12-hour clock to 24-hour clock, then tzinfo = UTC.  strptime takes a str
\* only: a None argument is a TypeError.
parse_date(string, fmt) ==
    IF IsNone(string) THEN Raise("TypeError")
    ELSE IF ~Matches(string, fmt) THEN Raise("ValueError")
    ELSE Return([year |-> string.year, month |-> string.month,
                 day |-> string.day,
                 hour |-> (string.hour % 12)
                          + (IF string.meridiem = "PM" THEN 12 ELSE 0),
                 minute |-> string.minute, second |-> string.second,
                 tzinfo |-> "UTC"])

\* ------------------------------------------------------ remote responses
\* requests.get(url).json(): the call fails, or yields a JSON object.
Failed == [ok |-> FALSE, json |-> EmptyDict]

Json(dict) == [ok |-> TRUE, json |-> dict]

\* The services of a directory: {name, type}, a name listed once.
ServiceEntries ==
    {[name |-> "S" \o ToString(i),
      type |-> IF i % 2 = 1 THEN "MapServer" ELSE "FeatureServer"] :
       i \in 1..MaxServices}

\* Layer j of a listing: {id, name}.  The ids count up from 0 in listing
\* order, as the server numbers them; the names do not follow that order.
Layer(j) == [id |-> j - 1, name |-> "L" \o ToString(MaxLayers - j)]

\* The layer lists of a listing response: the first n layers of a service.
LayerLists == {[j \in 1..n |-> Layer(j)] : n \in 0..MaxLayers}

DirectoryResponses ==
    {Failed, Json(EmptyDict)}
      \cup {Json([services |-> s]) : s \in SeqUpTo(ServiceEntries, MaxServices)}

ListingResponses ==
    {Failed, Json(EmptyDict)}
      \cup {Json([layers |-> l]) : l \in LayerLists}

MinRaws == {None, MinString, IsoString}

MaxRaws == {None, MaxString, BadHourString}

\* The attributes maps: both bounds absent, one bound absent beside a
\* well-formed other, or each bound null or a string.
AttributeMaps ==
    {EmptyDict, [min_date |-> MinString], [max_date |-> MaxString]}
      \cup {[min_date |-> a, max_date |-> b] : a \in MinRaws, b \in MaxRaws}

StatsResponses ==
    {Failed, Json(EmptyDict), Json([features |-> <<>>]),
     Json([features |-> <<EmptyDict>>])}
      \cup {Json([features |-> <<[attributes |-> m]>>]) : m \in AttributeMaps}

\* ------------------------------------------------------- get_date_range
\* A get_date_range that answers the null pair when there is no result row.
get_date_range_norow(stats_response) ==
    IF ~stats_response.ok THEN Raise("RequestException")
    ELSE IF \/ "features" \notin DOMAIN stats_response.json
            \/ Len(stats_response.json["features"]) = 0
            \/ "attributes" \notin DOMAIN stats_response.json["features"][1]
      THEN Return([min_date |-> None, max_date |-> None])
    ELSE
      LET attrs == stats_response.json["features"][1]["attributes"]
          min_date == parse_date(Get(attrs, "min_date", None), date_fmt)
          max_date == parse_date(Get(attrs, "max_date", None), date_fmt)
      IN  IF min_date.raised THEN min_date
          ELSE IF max_date.raised THEN max_date
          ELSE Return([min_date |-> min_date.value,
                       max_date |-> max_date.value])

\* A get_date_range that gives up on one bound only when its parse raises.
get_date_range_partial(stats_response) ==
    IF ~stats_response.ok THEN Raise("RequestException")
    ELSE IF "features" \notin DOMAIN stats_response.json THEN Raise("KeyError")
    ELSE IF Len(stats_response.json["features"]) = 0 THEN Raise("IndexError")
    ELSE IF "attributes" \notin DOMAIN stats_response.json["features"][1]
      THEN Raise("KeyError")
    ELSE
      LET attrs == stats_response.json["features"][1]["attributes"]
          min_date == parse_date(Get(attrs, "min_date", None), date_fmt)
          max_date == parse_date(Get(attrs, "max_date", None), date_fmt)
      IN  Return([min_date |-> IF min_date.raised THEN None
                               ELSE min_date.value,
                  max_date |-> IF max_date.raised THEN None
                               ELSE max_date.value])

\* get_date_range, from the response of its statistics request on.
get_date_range(stats_response) ==
    IF ~stats_response.ok THEN Raise("RequestException")
    ELSE IF "features" \notin DOMAIN stats_response.json THEN Raise("KeyError")
    ELSE IF Len(stats_response.json["features"]) = 0 THEN Raise("IndexError")
    ELSE IF "attributes" \notin DOMAIN stats_response.json["features"][1]
      THEN Raise("KeyError")
    ELSE
      LET attrs == stats_response.json["features"][1]["attributes"]
          min_date == parse_date(Get(attrs, "min_date", None), date_fmt)
          max_date == parse_date(Get(attrs, "max_date", None), date_fmt)
      IN  IF min_date.raised THEN min_date
          ELSE IF max_date.raised THEN max_date
          ELSE Return([min_date |-> min_date.value,
                       max_date |-> max_date.value])

\* ------------------------------------------------------------ get_layers
VARIABLES pc, services, si, layers, li, results, returned,
          listings, calls, lastStats, extents

vars == <<pc, services, si, layers, li, results, returned,
          listings, calls, lastStats, extents>>

ServiceUrl(service) == base_url \o "/" \o service.name \o "/" \o service.type

LayerUrl(service_url, layer_id) == service_url \o "/" \o ToString(layer_id)

StatsUrl(layer_url) ==
    layer_url \o "/query?f=json&outFields=*&outStatistics=[min,max]"
              \o "&returnGeometry=false&where=1=1"

\* A request of the directory or of a layer listing, and whether it succeeded.
Call(kind, s, url, ok) == [kind |-> kind, si |-> s, url |-> url, ok |-> ok]

\* A statistics request, for layer l of service s.
StatsCall(s, l, url) == [kind |-> "stats", si |-> s, li |-> l, url |-> url]

Init ==
    /\ pc = "start"
    /\ services = <<>>
    /\ si = 0
    /\ layers = <<>>
    /\ li = 0
    /\ results = <<>>
    /\ returned = <<>>
    /\ listings = <<>>
    /\ calls = <<>>
    /\ lastStats = <<>>
    /\ extents = <<>>

\* An exception leaves get_layers: nothing is returned.
Propagate ==
    /\ pc' = "raised"
    /\ UNCHANGED <<si, layers, li, returned>>

\* The service loop moves on to service n of svcs, or ends and returns res.
NextService(svcs, n, res) ==
    IF n <= Len(svcs)
      THEN /\ pc' = "service"
           /\ si' = n
           /\ layers' = <<>>
           /\ li' = 0
           /\ returned' = returned
      ELSE /\ pc' = "done"
           /\ returned' = <<res>>
           /\ UNCHANGED <<si, layers, li>>

\* ---- line 35-36: the root directory request
\* A directory request that insists on the "services" key.
FetchDirectoryStrict(response) ==
    /\ calls' = Append(calls, Call("directory", 0,
                                   base_url \o "/" \o folder \o "?f=json",
                                   response.ok))
    /\ UNCHANGED <<results, listings, lastStats, extents>>
    /\ IF ~response.ok \/ "services" \notin DOMAIN response.json
         THEN Propagate /\ services' = services
         ELSE /\ services' = response.json["services"]
              /\ NextService(services', 1, results)

FetchDirectoryWith(response) ==
    /\ calls' = Append(calls, Call("directory", 0,
                                   base_url \o "/" \o folder \o "?f=json",
                                   response.ok))
    /\ UNCHANGED <<results, listings, lastStats, extents>>
    /\ IF ~response.ok
         THEN Propagate /\ services' = services
         ELSE /\ services' = Get(response.json, "services", <<>>)
              /\ NextService(services', 1, results)

FetchDirectory ==
    /\ pc = "start"
    /\ \E response \in DirectoryResponses : FetchDirectoryWith(response)

\* ---- lines 40-47: the layer listing of service si
\* A listing request whose failure counts as an empty listing.
FetchLayersSwallow(layers_response) ==
    LET service_url == ServiceUrl(services[si])
        ls == Get(layers_response.json, "layers", <<>>)
    IN  /\ calls' = Append(calls, Call("layers", si, service_url \o "?f=json",
                                       layers_response.ok))
        /\ UNCHANGED <<services, results, lastStats, extents>>
        /\ listings' = Append(listings, layers_response.json)
        /\ IF ls = <<>>
             THEN NextService(services, si + 1, results)
             ELSE /\ pc' = "layer"
                  /\ layers' = ls
                  /\ li' = 1
                  /\ UNCHANGED <<si, returned>>

\* A listing request that ends the walk at a service without layers.
FetchLayersBreak(layers_response) ==
    LET service_url == ServiceUrl(services[si])
        ls == Get(layers_response.json, "layers", <<>>)
    IN  /\ calls' = Append(calls, Call("layers", si, service_url \o "?f=json",
                                       layers_response.ok))
        /\ UNCHANGED <<services, results, lastStats, extents>>
        /\ IF ~layers_response.ok
             THEN Propagate /\ listings' = listings
             ELSE /\ listings' = Append(listings, layers_response.json)
                  /\ IF ls = <<>>
                       THEN NextService(services, Len(services) + 1, results)
                       ELSE /\ pc' = "layer"
                            /\ layers' = ls
                            /\ li' = 1
                            /\ UNCHANGED <<si, returned>>

FetchLayersWith(layers_response) ==
    LET service_url == ServiceUrl(services[si])
        ls == Get(layers_response.json, "layers", <<>>)
    IN  /\ calls' = Append(calls, Call("layers", si, service_url \o "?f=json",
                                       layers_response.ok))
        /\ UNCHANGED <<services, results, lastStats, extents>>
        /\ IF ~layers_response.ok
             THEN Propagate /\ listings' = listings
             ELSE /\ listings' = Append(listings, layers_response.json)
                  /\ IF ls = <<>>
                       THEN NextService(services, si + 1, results)
                       ELSE /\ pc' = "layer"
                            /\ layers' = ls
                            /\ li' = 1
                            /\ UNCHANGED <<si, returned>>

FetchLayers ==
    /\ pc = "service"
    /\ \E layers_response \in ListingResponses : FetchLayersWith(layers_response)

\* ---- lines 49-68: layer li of service si
\* The extent of a layer whose get_date_range raised (line 57).
NullStats == [min_date |-> None, max_date |-> None]

\* A descriptor with the two bounds exchanged.
DescriptorSwapped(layer, stats, service_url) ==
    [layer_id |-> layer.id, layer_name |-> layer.name,
     min_date |-> stats.max_date, max_date |-> stats.min_date,
     service_url |-> service_url]

Descriptor(layer, stats, service_url) ==
    [layer_id |-> layer.id, layer_name |-> layer.name,
     min_date |-> stats.min_date, max_date |-> stats.max_date,
     service_url |-> service_url]

\* A result list that grows at its head.
Prepended(res, descriptor) == <<descriptor>> \o res

\* results.append(descriptor)
Appended(res, descriptor) == Append(res, descriptor)

\* results.append(...), then the next layer, the next service or the return.
AppendDescriptor(service_url, stats) ==
    LET res == Appended(results, Descriptor(layers[li], stats, service_url))
    IN  /\ results' = res
        /\ IF li < Len(layers)
             THEN /\ pc' = "layer"
                  /\ li' = li + 1
                  /\ UNCHANGED <<si, layers, returned>>
             ELSE NextService(services, si + 1, res)

\* What get_date_range did: it raised, or the value it returned.
Extent(r) == IF r.raised THEN [raised |-> TRUE]
             ELSE [raised |-> FALSE, value |-> r.value]

\* A statistics step without the try/except around get_date_range.
QueryStatsNoCatch(service_url, query_url, stats_response) ==
    LET r == get_date_range(stats_response)
    IN  /\ calls' = Append(calls, StatsCall(si, li, query_url))
        /\ lastStats' = <<stats_response>>
        /\ extents' = Append(extents, Extent(r))
        /\ UNCHANGED <<services, listings>>
        /\ IF r.raised
             THEN Propagate /\ results' = results
             ELSE AppendDescriptor(service_url, r.value)

\* A statistics step that asks once more when get_date_range raised.
QueryStatsRetry(service_url, query_url, stats_response) ==
    LET r == get_date_range(stats_response)
    IN  /\ calls' = Append(calls, StatsCall(si, li, query_url))
        /\ lastStats' = <<stats_response>>
        /\ UNCHANGED <<services, listings>>
        /\ IF r.raised /\ calls[Len(calls)] # calls'[Len(calls')]
             THEN UNCHANGED <<pc, si, layers, li, results, returned, extents>>
             ELSE /\ extents' = Append(extents, Extent(r))
                  /\ IF r.raised THEN AppendDescriptor(service_url, NullStats)
                                 ELSE AppendDescriptor(service_url, r.value)

\* The statistics request of one layer and lines 54-68 on its response.
QueryStatsWith(service_url, query_url, stats_response) ==
    LET r == get_date_range(stats_response)
    IN  /\ calls' = Append(calls, StatsCall(si, li, query_url))
        /\ lastStats' = <<stats_response>>
        /\ extents' = Append(extents, Extent(r))
        /\ UNCHANGED <<services, listings>>
        /\ IF r.raised
             THEN AppendDescriptor(service_url, NullStats)
             ELSE AppendDescriptor(service_url, r.value)

QueryStats ==
    /\ pc = "layer"
    /\ LET service_url == ServiceUrl(services[si])
           layer_url == LayerUrl(service_url, layers[li].id)
           query_url == StatsUrl(layer_url)
       IN  \E stats_response \in StatsResponses :
             QueryStatsWith(service_url, query_url, stats_response)

Next == FetchDirectory \/ FetchLayers \/ QueryStats

Spec == Init /\ [][Next]_vars

\* ================================================================ claims
\* The layers of a listing response: layers_response.get("layers", []).
LayersOf(json) == Get(json, "layers", <<>>)

\* The layers of the first n services in walk order, each with its service
\* and the place of that service in the directory.
RECURSIVE Listed(_)
Listed(n) ==
    IF n = 0 THEN <<>>
    ELSE Listed(n - 1)
           \o [j \in 1..Len(LayersOf(listings[n])) |->
                 [n |-> n, service |-> services[n],
                  layer |-> LayersOf(listings[n])[j]]]

AllListed == Listed(Len(listings))

IsStats(call) == call.kind = "stats"

\* The statistics requests, in the order they were made.
StatsRequests == SelectSeq(calls, IsStats)

\* The statistics response has a result row with an attributes map.
HasRow(response) ==
    /\ response.ok
    /\ "features" \in DOMAIN response.json
    /\ Len(response.json["features"]) > 0
    /\ "attributes" \in DOMAIN response.json["features"][1]

\* attrs.get(key) of the result row.
Raw(response, key) ==
    Get(response.json["features"][1]["attributes"], key, None)

Bounds == {"min_date", "max_date"}

NullPair(descriptor) ==
    IsNone(descriptor.min_date) /\ IsNone(descriptor.max_date)

\* The positions in calls of the requests of one kind.
CallsOf(kind) == {k \in DOMAIN calls : calls[k].kind = kind}

\* C1: whatever set of layers has a get_date_range that raises, the walk
\* does not abort: it ends only by a failed directory or listing request or
\* by returning one descriptor for every listed layer, and every layer whose
\* get_date_range raised has min_date = max_date = null.
C1_StatsFailureIsolated ==
    /\ \A k \in DOMAIN extents :
         extents[k].raised => k \in DOMAIN results /\ NullPair(results[k])
    /\ pc = "raised" =>
         calls[Len(calls)].kind # "stats" /\ ~calls[Len(calls)].ok
    /\ pc = "done" =>
         /\ Len(listings) = Len(services)
         /\ returned = <<results>>
         /\ Len(results) = Len(AllListed)

C1_Witness ==
    /\ pc = "done"
    /\ \E k, j \in DOMAIN extents :
         k < j /\ extents[k].raised /\ ~extents[j].raised
                /\ ~NullPair(returned[1][j])

\* C2: every descriptor has both dates or neither, whatever the statistics
\* responses were (one raw bound null, absent or malformed included).
C2_NoPartialExtent ==
    \A k \in DOMAIN results :
      IsNone(results[k].min_date) <=> IsNone(results[k].max_date)

C2_Witness ==
    /\ lastStats # <<>>
    /\ HasRow(lastStats[1])
    /\ IsNone(Raw(lastStats[1], "min_date"))
    /\ ~IsNone(Raw(lastStats[1], "max_date"))
    /\ Matches(Raw(lastStats[1], "max_date"), date_fmt)
    /\ Len(results) = Len(extents)
    /\ Len(results) > 0

\* C3: the result lists the layers service by service in directory order,
\* and in listing order within a service, whichever layers failed.
C3_WalkOrder ==
    LET all == AllListed
        urls == [n \in DOMAIN listings |->
                   base_url \o "/" \o services[n].name
                            \o "/" \o services[n].type]
    IN  /\ Len(results) <= Len(all)
        /\ \A k \in DOMAIN results :
             /\ results[k].service_url = urls[all[k].n]
             /\ results[k].layer_id = all[k].layer.id

C3_Witness ==
    /\ pc = "done"
    /\ Len(services) = 2
    /\ Len(LayersOf(listings[1])) = 2
    /\ Len(LayersOf(listings[2])) = 1
    /\ Len(returned[1]) = 3
    /\ extents[1].raised
    /\ ~extents[2].raised

\* C4: a service whose listing has no layers (key absent or list empty)
\* adds no descriptor, gets no statistics request, and the walk goes on
\* with the next service (or returns, after the last one).
C4_EmptyServiceSkipped ==
    [][(/\ pc = "service"
        /\ Len(listings') = Len(listings) + 1
        /\ LayersOf(listings'[Len(listings')]) = <<>>)
       => /\ results' = results
          /\ Len(calls') = Len(calls) + 1
          /\ calls'[Len(calls')].kind = "layers"
          /\ IF si < Len(services)
               THEN pc' = "service" /\ si' = si + 1 /\ returned' = <<>>
               ELSE pc' = "done" /\ returned' = <<results>>]_vars

C4_Witness ==
    /\ pc = "done"
    /\ Len(listings) = 2
    /\ "layers" \notin DOMAIN listings[1]
    /\ Len(returned[1]) > 0
    /\ \A k \in CallsOf("stats") : calls[k].si # 1

\* C5: a failed directory or listing request is not caught: get_layers
\* raises and returns nothing, the descriptors collected so far included.
C5_ListingFailurePropagates ==
    /\ (calls # <<>> /\ calls[Len(calls)].kind # "stats"
                     /\ ~calls[Len(calls)].ok)
         => pc = "raised"
    /\ pc = "raised" => returned = <<>>
    /\ returned # <<>> => \A k \in DOMAIN calls :
                            calls[k].kind # "stats" => calls[k].ok

C5_Witness ==
    /\ pc = "raised"
    /\ calls[Len(calls)].kind = "layers"
    /\ Len(results) > 0
    /\ returned = <<>>

\* C6: when every listing request succeeds the result has one descriptor
\* per listed layer, with the layer's id and name, the service_url
\* base_url/name/type of its service, and the extent get_date_range
\* returned for service_url/layer_id.
C6_OneDescriptorPerLayer ==
    LET all == AllListed
        requests == StatsRequests
        urls == [n \in DOMAIN listings |->
                   base_url \o "/" \o services[n].name
                            \o "/" \o services[n].type]
    IN  /\ pc = "done" => Len(returned[1]) = Len(all)
        /\ \A k \in DOMAIN results :
             /\ results[k].layer_id = all[k].layer.id
             /\ results[k].layer_name = all[k].layer.name
             /\ results[k].service_url = urls[all[k].n]
             /\ ~extents[k].raised =>
                  /\ results[k].min_date = extents[k].value.min_date
                  /\ results[k].max_date = extents[k].value.max_date
             /\ requests[k].url =
                  StatsUrl(urls[all[k].n] \o "/" \o ToString(all[k].layer.id))

C6_Witness ==
    /\ pc = "done"
    /\ Len(returned[1]) = 3
    /\ ~extents[1].raised
    /\ ~extents[3].raised
    /\ returned[1][3].min_date.hour = 4
    /\ returned[1][3].max_date.hour = 16

\* C7: a statistics response without a result row, or with a non-null raw
\* bound that does not match the format, makes get_date_range raise, and
\* get_layers gives the layer min_date = max_date = null in both cases.
NoRow(response) == response.ok /\ ~HasRow(response)

Malformed(response) ==
    /\ HasRow(response)
    /\ \E b \in Bounds :
         /\ ~IsNone(Raw(response, b))
         /\ Raw(response, b) \in {IsoString, BadHourString}

C7_NoRowOrMalformedIsNull ==
    (lastStats # <<>> /\ (NoRow(lastStats[1]) \/ Malformed(lastStats[1])))
      => /\ extents # <<>>
         /\ extents[Len(extents)].raised
         /\ Len(results) = Len(extents)
         /\ NullPair(results[Len(results)])

C7_Witness ==
    /\ lastStats # <<>>
    /\ Malformed(lastStats[1])
    /\ IsNone(Raw(lastStats[1], "min_date")) = FALSE
    /\ Len(results) = 2
    /\ NullPair(results[2])
    /\ ~NullPair(results[1])

\* C8: nothing is asked twice: one directory request, at most one listing
\* request per service, one statistics request per layer, and a failed
\* statistics request gives its layer the null extent at once.
C8_NoRetry ==
    /\ Cardinality(CallsOf("directory")) = (IF pc = "start" THEN 0 ELSE 1)
    /\ \A i \in DOMAIN services :
         Cardinality({k \in CallsOf("layers") : calls[k].si = i}) <= 1
    /\ \A k \in CallsOf("stats") :
         Cardinality({c \in CallsOf("stats") :
                        /\ calls[c].si = calls[k].si
                        /\ calls[c].li = calls[k].li}) = 1
    /\ Len(StatsRequests) = Len(results)
    /\ pc = "done" => Len(StatsRequests) = Len(AllListed)

C8_Witness ==
    /\ pc = "done"
    /\ Len(calls) = 5
    /\ extents[1].raised
    /\ lastStats = <<Failed>>

\* C9 as stated: with a result row, a missing or null raw bound gives a
\* null for that bound without an error, the other bound parsed as it is.
C9_NullBoundParsesToNull ==
    (/\ lastStats # <<>>
     /\ HasRow(lastStats[1])
     /\ IsNone(Raw(lastStats[1], "min_date"))
     /\ Raw(lastStats[1], "max_date") = MaxString)
      => /\ ~extents[Len(extents)].raised
         /\ IsNone(extents[Len(extents)].value.min_date)
         /\ ~IsNone(extents[Len(extents)].value.max_date)

\* C9, amended: with a result row, a missing or null raw bound makes
\* parse_date, and so get_date_range, raise; no value is returned and
\* get_layers gives the layer min_date = max_date = null.
C9_NullBoundRaises ==
    (/\ lastStats # <<>>
     /\ HasRow(lastStats[1])
     /\ \E b \in Bounds : IsNone(Raw(lastStats[1], b)))
      => /\ extents # <<>>
         /\ extents[Len(extents)].raised
         /\ Len(results) = Len(extents)
         /\ NullPair(results[Len(results)])

C9_Witness ==
    /\ lastStats # <<>>
    /\ HasRow(lastStats[1])
    /\ "max_date" \notin DOMAIN lastStats[1].json["features"][1]["attributes"]
    /\ Raw(lastStats[1], "min_date") = MinString
    /\ extents[Len(extents)].raised
    /\ NullPair(results[Len(results)])

\* C10: a directory response without services (key absent or list empty)
\* makes get_layers return the empty list, without raising and without any
\* further request.
C10_NoServicesEmptyResult ==
    (calls # <<>> /\ calls[1].ok /\ services = <<>>)
      => /\ pc = "done"
         /\ returned = << <<>> >>
         /\ Len(calls) = 1

C10_Witness ==
    /\ pc = "done"
    /\ services = <<>>
    /\ returned = << <<>> >>
    /\ Len(calls) = 1

====
